---- MODULE Spec2Model ----
(***************************************************************************)
(* Model of the module hot-reloading engine of etils.ecolab:               *)
(*   cell_autoreload.py  (staleness check, dependency closure, hook)       *)
(*   inplace_reload.py   (snapshot store and in-place patcher)             *)
(*                                                                         *)
(* Three specifications share this module:                                 *)
(*   SpecSearch  the _ModuleSearch queries of one hook run, step by step   *)
(*   SpecHook    the pre-run hook at the level of the module registry      *)
(*   SpecReload  update_old_modules at the level of the object heap        *)
(***************************************************************************)
EXTENDS Integers, Sequences, FiniteSets, TLC

(***************************************************************************)
(* Bounds of the model.                                                    *)
(***************************************************************************)
NumNodes == 3
MaxEdges == 3
NumMods == 2
MaxRefs == 1
MaxTime == 1
MaxFail == 1
MaxGen == 3
MaxDepth == 3
MaxObj == 2

Nodes == 1..NumNodes

(***************************************************************************)
(* Generic helpers.                                                        *)
(***************************************************************************)
Range(s) == {s[i] : i \in DOMAIN s}

\* All orders in which a Python `for x in <set>` may enumerate S.
Orders(S) == {s \in [1..Cardinality(S) -> S] : Range(s) = S}

(***************************************************************************)
(* Part 1: _ModuleSearch (cell_autoreload.py).                             *)
(***************************************************************************)
VARIABLES
  loaded,        \* watched names in sys.modules
  hasFile,       \* module -> it has a __file__ and is not __main__
  mtime,         \* module -> modification time of its file
  deps,          \* module -> watched modules its top-level bindings hold
  last_updates,  \* ModuleReloader._last_updates : a dict
  registered,    \* register() has run (the hook is installed)
  dirty_modules, \* dirty_modules of the last hook run
  cycle,         \* what the hook run that just returned did (reset by the
                 \* user's next action): "noop" when it returned at line
                 \* 196, "reload" when it went on, "idle" when none just ran;
  to_update,     \* its modules_to_update,
  reimported,    \* the modules its loop imported before it ended,
  imported,      \* the modules whose module object it created,
  raised,        \* the module whose import error it raised, or 0
  hooks,         \* history: 0 while no hook ran, 1 when the hook that just
                 \* returned was the first one, 2 when it was the second and
                 \* directly followed the first, 3 from then on
  runs,          \* history: 0 after a user action, 1 after a hook run, 2 after
                 \* a hook run that repeated the observations of the run before
  everSome,      \* history: modules for which a timestamp was ever observed
  firstObs       \* history: module -> first-observation record

hookVars == <<loaded, hasFile, mtime, deps, last_updates, registered,
              dirty_modules, cycle, to_update, reimported, imported, raised,
              hooks, runs, everSome, firstObs>>

VARIABLES
  graph,       \* _ModuleSearch._graph     : node -> set of nodes
  targets,     \* _ModuleSearch._targets   : the dirty set
  cache,       \* _ModuleSearch._cache     : node -> "none" | "true" | "false"
  pending,     \* nodes of reload_set the list comprehension has not reached
  modules_to_update,   \* the list built at cell_autoreload.py:204
  pc,          \* "idle" between queries, "loop" inside _reaches_targets
  source,      \* argument of the running query
  queue,       \* local of _reaches_targets
  visited,     \* local of _reaches_targets
  enq,         \* history: how often each node was put in the queue (this call)
  iters,       \* history: iterations of the while loop (this call)
  answers      \* history: node -> value returned by its reaches_targets call

searchVars == <<graph, targets, cache, pending, modules_to_update, pc, source,
                queue, visited, enq, iters, answers>>

VARIABLES
  sysmod,      \* sys.modules[m]: generation of the registered module object, 0 if none
  gens,        \* number of module objects created so far by imports of m
  objKind,     \* name -> generation -> kind of the live object that import
               \* bound to the name; "none": no such object, or collected
  ns,          \* module object -> its __dict__: name -> generation of the bound object
  fn,          \* top-level function object -> its attributes
  mfn,         \* method function object f of a class -> its attributes
  cattr,       \* class object -> its __dict__["f"]: generation of the method object, 0 if none
  icls,        \* instance -> its __class__ (<<name, generation>>), <<>> if no such instance
  deadMods,    \* module objects that were garbage-collected
  hasRefs,     \* m is a key of _InPlaceReloader._previous_modules
  refModules,  \* _previous_modules[m].modules
  refObjs,     \* _previous_modules[m].objs : a dict name -> list
  last         \* history: "patched" right after a cycle that ran the patch pass

heapVars == <<sysmod, gens, objKind, ns, fn, mfn, cattr, icls, deadMods,
              hasRefs, refModules, refObjs, last>>

VARIABLES
  cls_dict,      \* class object -> its own __dict__: attribute -> value
  cls_inherits,  \* class object -> a base class of it defines the attribute a
  locked,        \* attributes of the old classes whose setattr/delattr raise
  fobj,          \* function object -> its attributes
  inst_class,    \* old class -> __class__ of the instance created from it
  todo,          \* (old, new) pairs the loop of lines 102-104 has not reached
  stack,         \* the running _update_class calls, innermost last
  pstatus,       \* "running", "done", or the exception that left the pass
  cls_dict0,     \* history: cls_dict before the pass
  todo0,         \* history: todo before the pass
  pass_no,       \* history: 1 in the first pass over todo0, 2 in the second
  first_result   \* history: the classes, functions and instances after the
                 \* first pass

classVars == <<cls_dict, cls_inherits, locked, fobj, inst_class, todo, stack,
               pstatus, cls_dict0, todo0, pass_no, first_result>>

VARIABLES
  reload_mode,        \* adhoc_kwargs['reload_mode'] of the ModuleReloader
  modobj,             \* module name -> the module object sys.modules holds
                      \* for it (the k-th created for the name), 0 if none
  created,            \* module name -> number of module objects created
  mod_ns,             \* module name -> module object -> the module object
                      \* whose definitions its __dict__ holds, 0 if not created
  previous_modules,   \* _previous_modules: a dict name -> _ModuleRefs.modules
  user_ns,            \* what the user namespace binds the global name to: a
                      \* module object <<name, k>>, or <<0, 0>>
  globals_to_update   \* _globals_to_update.items(): at most the one name

cycleVars == <<reload_mode, modobj, created, mod_ns, previous_modules,
               user_ns, globals_to_update>>

vars == <<searchVars, hookVars, heapVars, classVars, cycleVars>>
notSearchVars == <<hookVars, heapVars, classVars, cycleVars>>
notHookVars == <<searchVars, heapVars, classVars, cycleVars>>
notHeapVars == <<searchVars, hookVars, classVars, cycleVars>>
notClassVars == <<searchVars, hookVars, heapVars, cycleVars>>
\* What the steps at the level of module objects leave alone.
notCycleVars == <<searchVars, heapVars, classVars, hasFile, mtime, deps,
                  last_updates, registered, hooks, runs, everSome, firstObs>>

EdgeCount(g) == Cardinality({e \in Nodes \X Nodes : e[2] \in g[e[1]]})

\* _create_module_graph: every node is a key, its deps are nodes.
Graphs == {g \in [Nodes -> SUBSET Nodes] : EdgeCount(g) <= MaxEdges}

\* self._cache.get(m), self._targets, self._graph.get(m, set())
CacheGet(m) == cache[m]

\* Mutant: the `neighbour not in visited` test (line 85) is dropped.
NewNeighboursAll(m) == graph[m]

NewNeighbours(m) == graph[m] \ visited

\* Mutant: the target test (line 81) looks at the source, not at the popped node.
VisitSourceOnly(m) ==
  IF CacheGet(m) # "none"
  THEN IF CacheGet(m) = "true" THEN "return_true" ELSE "continue"
  ELSE IF m = source /\ m \in targets THEN "return_true" ELSE "expand"

\* What one iteration of the while loop does with the popped node m.
Visit(m) ==
  IF CacheGet(m) # "none"
  THEN IF CacheGet(m) = "true" THEN "return_true" ELSE "continue"
  ELSE IF m \in targets THEN "return_true" ELSE "expand"

\* Mutant: the result is stored for every node the call visited.
ReturnCacheVisited(ret) ==
  /\ cache' = [n \in Nodes |->
                IF n \in visited THEN (IF ret THEN "true" ELSE "false")
                ELSE cache[n]]
  /\ answers' = [answers EXCEPT ![source] = IF ret THEN "true" ELSE "false"]
  /\ modules_to_update' =
       IF ret THEN Append(modules_to_update, source) ELSE modules_to_update
  /\ pc' = "idle"
  /\ queue' = <<>>
  /\ UNCHANGED <<graph, targets, pending, source, visited, enq, iters>>
  /\ UNCHANGED notSearchVars

\* reaches_targets: store the result, and the comprehension keeps the truthy.
Return(ret) ==
  /\ cache' = [cache EXCEPT ![source] = IF ret THEN "true" ELSE "false"]
  /\ answers' = [answers EXCEPT ![source] = IF ret THEN "true" ELSE "false"]
  /\ modules_to_update' =
       IF ret THEN Append(modules_to_update, source) ELSE modules_to_update
  /\ pc' = "idle"
  /\ queue' = <<>>
  /\ UNCHANGED <<graph, targets, pending, source, visited, enq, iters>>
  /\ UNCHANGED notSearchVars

\* Mutant: `visited` is kept from one call to the next instead of reset.
StartQueryKeepVisited(s) ==
  /\ pc = "idle"
  /\ s \in pending
  /\ pending' = pending \ {s}
  /\ source' = s
  /\ queue' = <<s>>
  /\ visited' = visited \cup {s}
  /\ enq' = [n \in Nodes |-> IF n = s THEN 1 ELSE 0]
  /\ iters' = 0
  /\ pc' = "loop"
  /\ UNCHANGED <<graph, targets, cache, modules_to_update, answers>>
  /\ UNCHANGED notSearchVars

\* `search.reaches_targets(mod)` for the next mod of reload_set: lines 67-68.
StartQuery(s) ==
  /\ pc = "idle"
  /\ s \in pending
  /\ pending' = pending \ {s}
  /\ source' = s
  /\ queue' = <<s>>
  /\ visited' = {s}
  /\ enq' = [n \in Nodes |-> IF n = s THEN 1 ELSE 0]
  /\ iters' = 0
  /\ pc' = "loop"
  /\ UNCHANGED <<graph, targets, cache, modules_to_update, answers>>
  /\ UNCHANGED notSearchVars

\* One iteration of `while queue:` (lines 70-87).
LoopStep ==
  /\ pc = "loop"
  /\ queue # <<>>
  /\ LET m == Head(queue)
         rest == Tail(queue)
     IN CASE Visit(m) = "return_true" ->
               /\ Return(TRUE)
          [] Visit(m) = "continue" ->
               /\ queue' = rest
               /\ iters' = iters + 1
               /\ UNCHANGED <<graph, targets, cache, pending,
                              modules_to_update, pc, source, visited, enq,
                              answers>>
               /\ UNCHANGED notSearchVars
          [] Visit(m) = "expand" ->
               /\ \E order \in Orders(NewNeighbours(m)) :
                    queue' = rest \o order
               /\ visited' = visited \cup NewNeighbours(m)
               /\ enq' = [n \in Nodes |->
                            IF n \in NewNeighbours(m) THEN enq[n] + 1
                                                      ELSE enq[n]]
               /\ iters' = iters + 1
               /\ UNCHANGED <<graph, targets, cache, pending,
                              modules_to_update, pc, source, answers>>
               /\ UNCHANGED notSearchVars

\* The loop condition fails: `return False` (line 89).
LoopExit ==
  /\ pc = "loop"
  /\ queue = <<>>
  /\ Return(FALSE)

SearchInit ==
  /\ graph \in Graphs
  /\ targets \in (SUBSET Nodes) \ {{}}
  /\ cache = [n \in Nodes |-> "none"]
  /\ answers = [n \in Nodes |-> "none"]
  /\ pending = Nodes
  /\ modules_to_update = <<>>
  /\ pc = "idle"
  /\ source = 1
  /\ queue = <<>>
  /\ visited = {}
  /\ enq = [n \in Nodes |-> 0]
  /\ iters = 0

SearchNext ==
  \/ \E s \in Nodes : StartQuery(s)
  \/ LoopStep
  \/ LoopExit

\* The search part, parked: the state the other specifications leave it in.
SearchIdle ==
  /\ graph = [n \in Nodes |-> {}]
  /\ targets = {}
  /\ cache = [n \in Nodes |-> "none"]
  /\ answers = [n \in Nodes |-> "none"]
  /\ pending = {}
  /\ modules_to_update = <<>>
  /\ pc = "idle"
  /\ source = 1
  /\ queue = <<>>
  /\ visited = {}
  /\ enq = [n \in Nodes |-> 0]
  /\ iters = 0

(***************************************************************************)
(* _ModuleSearch as operators, for the specifications that run a whole     *)
(* hook in one step.  Same loop body as LoopStep.                          *)
(***************************************************************************)
\* Some enumeration order of a set (the result of the search does not depend
\* on the order in which neighbours are appended, see C3_Terminates).
SomeOrder(S) == CHOOSE s \in Orders(S) : TRUE

\* _reaches_targets(source) with q = [source], v = {source}; c is self._cache.
RECURSIVE ReachesRun(_, _, _, _, _)
ReachesRun(g, T, c, q, v) ==
  IF q = <<>> THEN FALSE
  ELSE LET m == Head(q)
       IN IF c[m] # "none"
          THEN IF c[m] = "true" THEN TRUE ELSE ReachesRun(g, T, c, Tail(q), v)
          ELSE IF m \in T THEN TRUE
          ELSE LET nn == g[m] \ v
               IN ReachesRun(g, T, c, Tail(q) \o SomeOrder(nn), v \cup nn)

\* Mutant: every watched module is reloaded, in the order of reload_set.
SearchListAll(g, T, c, order) == order

\* [mod for mod in reload_set if search.reaches_targets(mod)], reload_set
\* enumerated as `order`, the cache c threaded through the calls.
RECURSIVE SearchList(_, _, _, _)
SearchList(g, T, c, order) ==
  IF order = <<>> THEN <<>>
  ELSE LET s == Head(order)
           ret == ReachesRun(g, T, c, <<s>>, {s})
           c2 == [c EXCEPT ![s] = IF ret THEN "true" ELSE "false"]
       IN (IF ret THEN <<s>> ELSE <<>>) \o SearchList(g, T, c2, Tail(order))

(***************************************************************************)
(* Part 2: ModuleReloader (cell_autoreload.py) at the level of the module  *)
(* registry: which watched modules are loaded, their files, the recorded   *)
(* timestamps.  Every module of Mods is under a watched prefix.            *)
(***************************************************************************)
Mods == 1..NumMods

\* Python's None, and a timestamp t, as values of one kind.
None == <<>>
Stamp(t) == <<t>>

\* dict.get(key): None when the key is missing.
DictGet(d, k) == IF k \in DOMAIN d THEN d[k] ELSE None

\* module_utils.get_module_names(self.reload): the loaded watched modules.
GetModuleNames == loaded

\* _get_last_module_update(m); statFail: the modules whose stat() raises
\* OSError at this call.
GetLastModuleUpdate(m, statFail) ==
  IF m \notin loaded THEN None
  ELSE IF ~hasFile[m] THEN None
  ELSE IF m \in statFail THEN None
  ELSE Stamp(mtime[m])

\* Mutant: a module is dirty only when both timestamps are known.
IsDirtyKnownOnly(prev, new) ==
  prev # None /\ new # None /\ new[1] > prev[1]

\* Mutant: a timestamp equal to the recorded one counts as newer.
IsDirtyOrEqual(prev, new) ==
  prev = None \/ (new # None /\ new[1] >= prev[1])

\* The test of lines 189-191.
IsDirty(prev, new) ==
  prev = None \/ (new # None /\ new[1] > prev[1])

\* Lines 185-193: the dirty set, and _last_updates after the loop.
DirtySet(statFail) ==
  {m \in GetModuleNames :
     IsDirty(DictGet(last_updates, m), GetLastModuleUpdate(m, statFail))}

\* Mutant: the timestamp is recorded for the dirty modules only.
UpdatedStampsDirtyOnly(statFail) ==
  [m \in DOMAIN last_updates \cup DirtySet(statFail) |->
     IF m \in DirtySet(statFail) THEN GetLastModuleUpdate(m, statFail)
     ELSE last_updates[m]]

UpdatedStamps(statFail) ==
  [m \in DOMAIN last_updates \cup GetModuleNames |->
     IF m \in GetModuleNames THEN GetLastModuleUpdate(m, statFail)
     ELSE last_updates[m]]

\* _create_module_graph(reload_set).
CreateModuleGraph(nodes) == [m \in nodes |-> deps[m] \cap nodes]

\* importlib.import_module(m) on registry reg; bad: the modules whose body
\* raises.  A module already in the registry is returned as is; otherwise it
\* is entered, its imports run, then its body; a failure removes it again.
\* err: the module whose body raised the error that comes out, or 0.
RECURSIVE ImportModule(_, _, _)
RECURSIVE ImportEach(_, _, _)
ImportModule(reg, m, bad) ==
  IF m \in reg THEN [reg |-> reg, ok |-> TRUE, err |-> 0]
  ELSE LET r == ImportEach(reg \cup {m}, SomeOrder(deps[m]), bad)
       IN IF r.ok /\ m \notin bad THEN r
          ELSE [reg |-> r.reg \ {m}, ok |-> FALSE,
                err |-> IF r.ok THEN m ELSE r.err]

ImportEach(reg, ms, bad) ==
  IF ms = <<>> THEN [reg |-> reg, ok |-> TRUE, err |-> 0]
  ELSE LET r == ImportModule(reg, Head(ms), bad)
       IN IF r.ok THEN ImportEach(r.reg, Tail(ms), bad) ELSE r

\* module_utils.clear_cached_modules(modules=reload).
ClearCachedModules(reg, reload) == reg \ Range(reload)

\* Mutant: the loop goes on after a failure and raises the first error at
\* its end.
RECURSIVE ReimportLoopNoAbort(_, _, _, _)
ReimportLoopNoAbort(reg, ms, bad, done) ==
  IF ms = <<>> THEN [reg |-> reg, done |-> done, raised |-> 0]
  ELSE LET r == ImportModule(reg, Head(ms), bad)
       IN IF r.ok
          THEN ReimportLoopNoAbort(r.reg, Tail(ms), bad, Append(done, Head(ms)))
          ELSE [reg |-> ReimportLoopNoAbort(r.reg, Tail(ms), bad, done).reg,
                done |-> done, raised |-> r.err]

\* Lines 225-227: the loop of import_module calls inside adhoc(); the first
\* failure ends it.  done: the modules imported by the loop so far.
RECURSIVE ReimportLoop(_, _, _, _)
ReimportLoop(reg, ms, bad, done) ==
  IF ms = <<>> THEN [reg |-> reg, done |-> done, raised |-> 0]
  ELSE LET r == ImportModule(reg, Head(ms), bad)
       IN IF r.ok THEN ReimportLoop(r.reg, Tail(ms), bad, Append(done, Head(ms)))
          ELSE [reg |-> r.reg, done |-> done, raised |-> r.err]

Bounded(S) == {x \in SUBSET S : Cardinality(x) <= MaxFail}

\* register(): lines 123-124.
Register ==
  /\ ~registered
  /\ \E statFail \in Bounded(loaded) :
       /\ last_updates' = [m \in GetModuleNames |-> GetLastModuleUpdate(m, statFail)]
       /\ everSome' = everSome \cup
            {m \in loaded : GetLastModuleUpdate(m, statFail) # None}
  /\ registered' = TRUE
  /\ UNCHANGED <<loaded, hasFile, mtime, deps, dirty_modules, cycle,
                 to_update, reimported, imported, raised, hooks, runs,
                 firstObs>>
  /\ UNCHANGED notHookVars

\* The file of m is written: its modification time changes.
Touch(m) ==
  /\ hasFile[m]
  /\ \E t \in 0..MaxTime : t # mtime[m] /\ mtime' = [mtime EXCEPT ![m] = t]
  /\ runs' = 0
  /\ firstObs' = [firstObs EXCEPT ![m] = IF @ = "once" THEN "changed" ELSE @]
  /\ cycle' = "idle"
  /\ hooks' = IF hooks = 0 THEN 0 ELSE 3
  /\ to_update' = <<>> /\ reimported' = <<>> /\ imported' = {} /\ raised' = 0
  /\ UNCHANGED <<loaded, hasFile, deps, last_updates, registered,
                 dirty_modules, everSome>>
  /\ UNCHANGED notHookVars

\* The user's cell imports a watched module that is not loaded.
UserImport(m) ==
  /\ m \notin loaded
  /\ loaded' = ImportModule(loaded, m, {}).reg
  /\ runs' = 0
  /\ cycle' = "idle"
  /\ hooks' = IF hooks = 0 THEN 0 ELSE 3
  /\ to_update' = <<>> /\ reimported' = <<>> /\ imported' = {} /\ raised' = 0
  /\ UNCHANGED <<hasFile, mtime, deps, last_updates, registered,
                 dirty_modules, everSome,
                 firstObs>>
  /\ UNCHANGED notHookVars

\* Mutant: the hook never returns early.
EarlyReturnNever(dirty) == FALSE

\* Line 195: `if not dirty_modules`.
EarlyReturn(dirty) == dirty = {}

\* History kept by a staleness check for the first-observation policy.
FirstObsAfter(dirty) ==
  [m \in Mods |->
     IF m \notin loaded THEN firstObs[m]
     ELSE IF firstObs[m] = "unseen" /\ m \notin DOMAIN last_updates
          THEN (IF m \in dirty THEN "once" ELSE "missed")
     ELSE IF firstObs[m] = "once" /\ m \in dirty THEN "again"
     ELSE firstObs[m]]

\* _pre_run_cell_maybe_reload: the whole hook.  statFail: the modules whose
\* stat() raises during the staleness loop; order: the enumeration of
\* reload_set; bad: the modules whose body raises when imported.
PreRunCell ==
  /\ registered
  /\ \E statFail \in Bounded(loaded) :
       LET dirty == DirtySet(statFail)
       IN /\ dirty_modules' = dirty
          /\ last_updates' = UpdatedStamps(statFail)
          /\ everSome' = everSome \cup
               {m \in loaded : GetLastModuleUpdate(m, statFail) # None}
          /\ firstObs' = FirstObsAfter(dirty)
          /\ hooks' = IF hooks < 2 THEN hooks + 1 ELSE 3
          /\ runs' = IF /\ runs >= 1
                        /\ \A m \in loaded :
                             /\ m \in DOMAIN last_updates
                             /\ GetLastModuleUpdate(m, statFail) = last_updates[m]
                     THEN 2 ELSE 1
          /\ IF EarlyReturn(dirty)
             THEN \* line 196: return
                  /\ cycle' = "noop"
                  /\ loaded' = loaded
                  /\ to_update' = <<>>
                  /\ reimported' = <<>>
                  /\ imported' = {}
                  /\ raised' = 0
             ELSE \E order \in Orders(loaded), bad \in Bounded(Mods) :
                    LET g == CreateModuleGraph(GetModuleNames)
                        mtu == SearchList(g, dirty,
                                          [n \in loaded |-> "none"], order)
                        cleared == ClearCachedModules(loaded, mtu)
                        r == ReimportLoop(cleared, mtu, bad, <<>>)
                    IN /\ cycle' = "reload"
                       /\ loaded' = r.reg
                       /\ to_update' = mtu
                       /\ reimported' = r.done
                       /\ imported' = r.reg \ cleared
                       /\ raised' = r.raised
  /\ UNCHANGED <<hasFile, mtime, deps, registered>>
  /\ UNCHANGED notHookVars

DepsClosed(L, d) == \A m \in L : d[m] \subseteq L

RefCount(d) == Cardinality({e \in Mods \X Mods : e[2] \in d[e[1]]})

HookInit ==
  /\ hasFile \in [Mods -> BOOLEAN]
  /\ mtime = [m \in Mods |-> 0]
  /\ deps \in {d \in [Mods -> SUBSET Mods] : RefCount(d) <= MaxRefs}
  /\ loaded \in {L \in SUBSET Mods : DepsClosed(L, deps)}
  /\ last_updates = <<>>
  /\ registered = FALSE
  /\ dirty_modules = {}
  /\ cycle = "idle"
  /\ to_update = <<>>
  /\ reimported = <<>>
  /\ imported = {}
  /\ raised = 0
  /\ hooks = 0
  /\ runs = 0
  /\ everSome = {}
  /\ firstObs = [m \in Mods |-> "unseen"]

HookIdle ==
  /\ hasFile = [m \in Mods |-> TRUE]
  /\ mtime = [m \in Mods |-> 0]
  /\ deps = [m \in Mods |-> {}]
  /\ loaded = {}
  /\ last_updates = <<>>
  /\ registered = FALSE
  /\ dirty_modules = {}
  /\ cycle = "idle"
  /\ to_update = <<>>
  /\ reimported = <<>>
  /\ imported = {}
  /\ raised = 0
  /\ hooks = 0
  /\ runs = 0
  /\ everSome = {}
  /\ firstObs = [m \in Mods |-> "unseen"]

HookNext ==
  \/ Register
  \/ \E m \in Mods : Touch(m)
  \/ \E m \in Mods : UserImport(m)
  \/ PreRunCell

(***************************************************************************)
(* Part 3: _InPlaceReloader (inplace_reload.py) at the level of the object *)
(* heap, for one watched module name m.  Every loop of the reloader treats *)
(* the module names independently, so the state kept for one name is what  *)
(* a cycle reads and writes for it.  In the same way the patch pass treats *)
(* the top-level names of m one by one and the instances of a class one by *)
(* one: the heap holds one top-level name, x, and one instance slot, obj.  *)
(*                                                                         *)
(* An object is identified by the import that created it: module object g  *)
(* is the one the g-th import of m created, the top-level object <<n, g>>  *)
(* is what that import bound to name n.  A class has at most one attribute *)
(* of its own, the method f.  An object that was not collected may be held *)
(* by the user, so every weak reference to it resolves.                    *)
(***************************************************************************)
Gens == 1..MaxGen
Names == {"x"}
Insts == {"obj"}

\* What the source binds to a name: nothing, a function, a class without
\* attributes of its own, a class that defines the method f.
Kinds == {"none", "func", "class", "classf"}

IsClass(k) == k \in {"class", "classf"}

\* The attributes of the function object compiled by import g.
FnOf(g) == [code |-> g, defaults |-> g, doc |-> g, closure |-> g,
            globals |-> g, dict |-> g]

Heap == [objKind |-> objKind, ns |-> ns, fn |-> fn, mfn |-> mfn,
         cattr |-> cattr, icls |-> icls]

\* importlib.import_module(m) with m not in sys.modules: a new module object g
\* whose body, the source s, creates new objects.
DoImport(h, g, s) ==
  [h EXCEPT
     !.objKind = [n \in Names |-> [h.objKind[n] EXCEPT ![g] = s[n]]],
     !.ns = [h.ns EXCEPT ![g] = [n \in Names |-> IF s[n] = "none" THEN 0 ELSE g]],
     !.fn = [n \in Names |->
              [h.fn[n] EXCEPT ![g] = IF s[n] = "func" THEN FnOf(g) ELSE FnOf(0)]],
     !.mfn = [n \in Names |->
              [h.mfn[n] EXCEPT ![g] = IF s[n] = "classf" THEN FnOf(g) ELSE FnOf(0)]],
     !.cattr = [n \in Names |->
              [h.cattr[n] EXCEPT ![g] = IF s[n] = "classf" THEN g ELSE 0]]]

\* Mutant: the old dict is updated without being cleared first.
UpdateOldModuleNoClear(nsmap, old, new) ==
  [nsmap EXCEPT ![old] =
     [n \in Names |-> IF nsmap[new][n] # 0 THEN nsmap[new][n] ELSE nsmap[old][n]]]

\* _update_old_module: old.__dict__.clear(); old.__dict__.update(new.__dict__).
UpdateOldModule(nsmap, old, new) ==
  IF old = new THEN [nsmap EXCEPT ![old] = [n \in Names |-> 0]]
  ELSE [nsmap EXCEPT ![old] = nsmap[new]]

\* _update_function: __closure__ and __globals__ are read-only, their
\* AttributeError is caught; the other four attributes are copied.
UpdateFunction(old, new) ==
  [old EXCEPT !.code = new.code, !.defaults = new.defaults,
              !.doc = new.doc, !.dict = new.dict]

\* _update_instances: every live instance whose type is the old class.
UpdateInstances(h, n, old, new) ==
  [h EXCEPT !.icls = [i \in Insts |->
                        IF h.icls[i] = <<n, old>> THEN <<n, new>> ELSE h.icls[i]]]

\* _update_class(old, new) for the classes <<n, old>> and <<n, new>>.
UpdateClass(h, n, old, new) ==
  LET oldKey == h.cattr[n][old]
      newKey == h.cattr[n][new]
      h1 == IF oldKey = 0 THEN h                    \* no key to walk
            ELSE IF newKey = 0                      \* obsolete attribute
                 THEN [h EXCEPT !.cattr[n][old] = 0]
            ELSE LET h2 == IF oldKey = newKey THEN h   \* old is new
                           ELSE [h EXCEPT !.mfn[n][oldKey] =
                                   UpdateFunction(h.mfn[n][oldKey],
                                                  h.mfn[n][newKey])]
                 IN [h2 EXCEPT !.cattr[n][old] = newKey]
  IN UpdateInstances(h1, n, old, new)

\* _update_generic(old, new) for the objects <<n, old>> and <<n, new>>.
UpdateGeneric(h, n, old, new) ==
  IF old = new THEN h
  ELSE IF IsClass(h.objKind[n][old]) /\ IsClass(h.objKind[n][new])
       THEN UpdateClass(h, n, old, new)
  ELSE IF h.objKind[n][old] = "func" /\ h.objKind[n][new] = "func"
       THEN [h EXCEPT !.fn[n][old] = UpdateFunction(h.fn[n][old], h.fn[n][new])]
  ELSE h

\* Lines 102-104: the loop over the live old objects of one name.
RECURSIVE UpdateEach(_, _, _, _)
UpdateEach(h, n, olds, new) ==
  IF olds = <<>> THEN h
  ELSE UpdateEach(UpdateGeneric(h, n, Head(olds), new), n, Tail(olds), new)

\* Lines 88-89: the loop over the live old modules.
RECURSIVE UpdateModules(_, _, _)
UpdateModules(nsmap, olds, new) ==
  IF olds = <<>> THEN nsmap
  ELSE UpdateModules(UpdateOldModule(nsmap, Head(olds), new), Tail(olds), new)

\* Mutant: the weak references to modules are kept without being resolved.
AllMods(refs) == refs

\* [r for ref in refs if (r := ref())]
LiveMods(refs) == SelectSeq(refs, LAMBDA g : g \notin deadMods)
LiveObjs(n, refs) == SelectSeq(refs, LAMBDA g : objKind[n][g] # "none")

\* The names for which lines 94-100 make an entry of live_old_objects.
PatchedNames(h, robjs, new) ==
  {n \in DOMAIN robjs : h.ns[new][n] # 0}

\* Lines 91-104, names in some order.
RECURSIVE UpdateNames(_, _, _, _)
UpdateNames(h, robjs, names, new) ==
  IF names = <<>> THEN h
  ELSE LET n == Head(names)
       IN UpdateNames(UpdateEach(h, n, LiveObjs(n, robjs[n]), h.ns[new][n]),
                      robjs, Tail(names), new)

\* _ModuleRefs.update_refs_with_new_module(new_module): the heap after it and
\* the _ModuleRefs it returns.
UpdateRefsWithNewModule(h, rmods, robjs, new) ==
  LET modules == LiveMods(rmods)
      h1 == [h EXCEPT !.ns = UpdateModules(h.ns, modules, new)]
      names == PatchedNames(h1, robjs, new)
      h2 == UpdateNames(h1, robjs, SomeOrder(names), new)
  IN [heap |-> h2,
      modules |-> modules,
      objs |-> [n \in names |-> LiveObjs(n, robjs[n])]]

\* _ModuleRefs.save_module(module) for the module object g: the objs dict after.
\* Every object of the model is defined in m and is a class or a function.
SaveObjs(robjs, g) ==
  LET bound == {n \in Names : ns[g][n] # 0}
  IN [n \in DOMAIN robjs \cup bound |->
        IF n \in bound
        THEN Append(IF n \in DOMAIN robjs THEN robjs[n] ELSE <<>>, ns[g][n])
        ELSE robjs[n]]

\* The modes that differ inside this file.  (INVALIDATE is KEEP_OLD here; it
\* differs only in what clear_cached_modules does to the old module.)
ReloadModes == {"UPDATE_INPLACE", "KEEP_OLD"}

\* Mutant: the patch pass runs in every mode.
RunsPatcherAlways(mode) == TRUE

\* Line 165: `if reload_mode == ReloadMode.UPDATE_INPLACE`.
RunsPatcher(mode) == mode = "UPDATE_INPLACE"

\* _InPlaceReloader.update_old_modules(reload=[..., m, ...], reload_mode=mode)
\* around the imports of the `with` block.  importOk: the import of m is
\* reached and succeeds; src: what the source file of m then defines.
ReloadCycle(mode, importOk, src) ==
  /\ importOk => gens < MaxGen
  /\ LET saved == sysmod # 0
         rmods == IF saved THEN Append(refModules, sysmod) ELSE refModules
         robjs == IF saved THEN SaveObjs(refObjs, sysmod) ELSE refObjs
         new == IF importOk THEN gens + 1 ELSE 0
         h1 == IF importOk THEN DoImport(Heap, new, src) ELSE Heap
         patch == RunsPatcher(mode) /\ new # 0 /\ (hasRefs \/ saved)
         r == UpdateRefsWithNewModule(h1, rmods, robjs, new)
         h2 == IF patch THEN r.heap ELSE h1
     IN /\ sysmod' = new
        /\ gens' = IF importOk THEN new ELSE gens
        /\ hasRefs' = (hasRefs \/ saved)
        /\ refModules' = IF patch THEN r.modules ELSE rmods
        /\ refObjs' = IF patch THEN r.objs ELSE robjs
        /\ objKind' = h2.objKind
        /\ ns' = h2.ns
        /\ fn' = h2.fn
        /\ mfn' = h2.mfn
        /\ cattr' = h2.cattr
        /\ icls' = h2.icls
        /\ last' = IF mode = "UPDATE_INPLACE" /\ patch THEN "patched"
                   ELSE "other"
  /\ UNCHANGED deadMods
  /\ UNCHANGED notHeapVars

\* The user's cell imports m while it is not in sys.modules; src: what the
\* source file of m defines.
UserImportM(src) ==
  /\ sysmod = 0
  /\ gens < MaxGen
  /\ LET h == DoImport(Heap, gens + 1, src)
     IN /\ objKind' = h.objKind
        /\ ns' = h.ns
        /\ fn' = h.fn
        /\ mfn' = h.mfn
        /\ cattr' = h.cattr
  /\ sysmod' = gens + 1
  /\ gens' = gens + 1
  /\ last' = "other"
  /\ UNCHANGED <<icls, deadMods, hasRefs, refModules, refObjs>>
  /\ UNCHANGED notHeapVars

\* The user's cell instantiates a class object it holds.
NewInstance(i, n, g) ==
  /\ icls[i] = <<>>
  /\ IsClass(objKind[n][g])
  /\ icls' = [icls EXCEPT ![i] = <<n, g>>]
  /\ last' = "other"
  /\ UNCHANGED <<sysmod, gens, objKind, ns, fn, mfn, cattr, deadMods,
                 hasRefs, refModules, refObjs>>
  /\ UNCHANGED notHeapVars

\* The last reference to an instance goes away.
DropInstance(i) ==
  /\ icls[i] # <<>>
  /\ icls' = [icls EXCEPT ![i] = <<>>]
  /\ UNCHANGED <<sysmod, gens, objKind, ns, fn, mfn, cattr, deadMods,
                 hasRefs, refModules, refObjs, last>>
  /\ UNCHANGED notHeapVars

\* A module object that sys.modules does not hold is collected; its dict
\* goes with it.
CollectModule(g) ==
  /\ g <= gens
  /\ g # sysmod
  /\ g \notin deadMods
  /\ deadMods' = deadMods \cup {g}
  /\ ns' = [ns EXCEPT ![g] = [n \in Names |-> 0]]
  /\ UNCHANGED <<sysmod, gens, objKind, fn, mfn, cattr, icls, hasRefs,
                 refModules, refObjs, last>>
  /\ UNCHANGED notHeapVars

\* A class or function that no live module binds and no instance has as its
\* class is collected.  (The method object of a collected class lives on
\* while another class is bound to it.)
CollectObject(n, g) ==
  /\ g <= gens
  /\ objKind[n][g] # "none"
  /\ \A k \in 1..gens : ns[k][n] # g
  /\ \A i \in Insts : icls[i] # <<n, g>>
  /\ objKind' = [objKind EXCEPT ![n][g] = "none"]
  /\ fn' = [fn EXCEPT ![n][g] = FnOf(0)]
  /\ cattr' = [cattr EXCEPT ![n][g] = 0]
  /\ UNCHANGED <<sysmod, gens, ns, mfn, icls, deadMods, hasRefs, refModules,
                 refObjs, last>>
  /\ UNCHANGED notHeapVars

HeapIdle ==
  /\ sysmod = 0
  /\ gens = 0
  /\ objKind = [n \in Names |-> [g \in Gens |-> "none"]]
  /\ ns = [g \in Gens |-> [n \in Names |-> 0]]
  /\ fn = [n \in Names |-> [g \in Gens |-> FnOf(0)]]
  /\ mfn = [n \in Names |-> [g \in Gens |-> FnOf(0)]]
  /\ cattr = [n \in Names |-> [g \in Gens |-> 0]]
  /\ icls = [i \in Insts |-> <<>>]
  /\ deadMods = {}
  /\ hasRefs = FALSE
  /\ refModules = <<>>
  /\ refObjs = <<>>
  /\ last = "other"

\* A fresh process: nothing imported, nothing saved.
HeapInit ==
  /\ sysmod = 0
  /\ gens = 0
  /\ objKind = [n \in Names |-> [g \in Gens |-> "none"]]
  /\ ns = [g \in Gens |-> [n \in Names |-> 0]]
  /\ fn = [n \in Names |-> [g \in Gens |-> FnOf(0)]]
  /\ mfn = [n \in Names |-> [g \in Gens |-> FnOf(0)]]
  /\ cattr = [n \in Names |-> [g \in Gens |-> 0]]
  /\ icls = [i \in Insts |-> <<>>]
  /\ deadMods = {}
  /\ hasRefs = FALSE
  /\ refModules = <<>>
  /\ refObjs = <<>>
  /\ last = "other"

Sources == [Names -> Kinds]

NoSource == [n \in Names |-> "none"]

HeapNext ==
  \/ \E mode \in ReloadModes, src \in Sources : ReloadCycle(mode, TRUE, src)
  \/ \E mode \in ReloadModes : ReloadCycle(mode, FALSE, NoSource)
  \/ \E src \in Sources : UserImportM(src)
  \/ \E i \in Insts, n \in Names, g \in Gens : NewInstance(i, n, g)
  \/ \E i \in Insts : DropInstance(i)
  \/ \E g \in Gens : CollectModule(g)
  \/ \E n \in Names, g \in Gens : CollectObject(n, g)

(***************************************************************************)
(* Part 4: _update_class (inplace_reload.py) step by step, for the old     *)
(* objects of the loop of lines 102-104.  Two old classes, O1 and O2, and  *)
(* two new ones, N1 and N2.  A class has at most two attributes of its     *)
(* own: a, a function, and b, a class (a nested class, the class itself or *)
(* an enclosing one).  Class 1 may inherit a from a base class B that the  *)
(* reload did not replace.  One step handles one key of the innermost      *)
(* running call; MaxDepth stands for the interpreter's recursion limit.    *)
(***************************************************************************)
OldClasses == {"O1", "O2"}
NewClasses == {"N1", "N2"}
Classes == OldClasses \cup NewClasses
Attrs == {"a", "b"}

NoVal == <<"none", "">>
FnVal(c) == <<"fn", c>>
ClsVal(c) == <<"cls", c>>
BaseFn == FnVal("B")

SameSide(c) == IF c \in OldClasses THEN OldClasses ELSE NewClasses

\* getattr(c, key): the class's own dict, then its bases; NoVal stands for
\* AttributeError.
GetAttr(d, inh, c, key) ==
  IF d[c][key] # NoVal THEN d[c][key]
  ELSE IF key = "a" /\ inh[c] THEN BaseFn
  ELSE NoVal

\* list(old.__dict__.keys()) (line 243).
OwnKeys(d, c) == SelectSeq(<<"a", "b">>, LAMBDA k : d[c][k] # NoVal)

\* Mutant: no exception is caught.
CaughtNothing(exc) == FALSE

\* `except (AttributeError, TypeError)` (lines 252 and 260).
Caught(exc) == exc \in {"AttributeError", "TypeError"}

\* delattr(c, key) (line 251) when it is permitted.
DelAttr(d, c, key) == [d EXCEPT ![c][key] = NoVal]

\* setattr(c, key, val) (line 259) when the attribute is writable.
SetAttr(d, c, key, val) == [d EXCEPT ![c][key] = val]

\* _update_instances(old, new) (lines 315-321).
RepointInstances(ic, old, new) ==
  [k \in OldClasses |-> IF ic[k] = old THEN new ELSE ic[k]]

\* The frame of a call _update_class(old, new); own: history, the keys the
\* old class had when the call started.
Frame(d, old, new) ==
  [old |-> old, new |-> new, keys |-> OwnKeys(d, old),
   own |-> OwnKeys(d, old), phase |-> "visit"]

Top == stack[Len(stack)]

\* What a pass leaves behind.
PassResult == [cls_dict |-> cls_dict, fobj |-> fobj, inst_class |-> inst_class]

\* The stack with the innermost frame replaced by f.
WithTop(f) == [stack EXCEPT ![Len(stack)] = f]

\* The innermost frame after its current key is done.
NextKey == [Top EXCEPT !.keys = Tail(@), !.phase = "visit"]

\* Line 104: _update_generic(old_obj, new_obj) for the next pair of the loop;
\* both objects are classes and differ.
StartPair ==
  /\ pstatus = "running"
  /\ stack = <<>>
  /\ todo # <<>>
  /\ stack' = <<Frame(cls_dict, Head(todo)[1], Head(todo)[2])>>
  /\ todo' = Tail(todo)
  /\ UNCHANGED <<cls_dict, cls_inherits, locked, fobj, inst_class, pstatus,
                 cls_dict0, todo0, pass_no, first_result>>
  /\ UNCHANGED notClassVars

\* Lines 258-261 for the current key of the innermost frame: the dict after.
SetOrSkip(key) ==
  IF key \in locked THEN cls_dict
  ELSE SetAttr(cls_dict, Top.old, key,
               GetAttr(cls_dict, cls_inherits, Top.new, key))

\* One iteration of the loop of line 243 up to the recursive call, if any.
VisitKey ==
  /\ pstatus = "running"
  /\ stack # <<>>
  /\ Top.phase = "visit"
  /\ Top.keys # <<>>
  /\ LET key == Head(Top.keys)
         old_obj == GetAttr(cls_dict, cls_inherits, Top.old, key)
         new_obj == GetAttr(cls_dict, cls_inherits, Top.new, key)
     IN IF old_obj = NoVal
        THEN \* line 244, outside the try
             /\ pstatus' = "AttributeError"
             /\ UNCHANGED <<cls_dict, fobj, stack>>
        ELSE IF new_obj = NoVal
        THEN \* lines 248-254: obsolete attribute
             IF key \in locked /\ ~Caught("AttributeError")
             THEN /\ pstatus' = "AttributeError"
                  /\ UNCHANGED <<cls_dict, fobj, stack>>
             ELSE /\ cls_dict' = IF key \in locked THEN cls_dict
                                 ELSE DelAttr(cls_dict, Top.old, key)
                  /\ stack' = WithTop(NextKey)
                  /\ UNCHANGED <<fobj, pstatus>>
        ELSE IF old_obj # new_obj /\ old_obj[1] = "cls" /\ new_obj[1] = "cls"
        THEN \* line 256: _update_generic calls _update_class again
             IF Len(stack) >= MaxDepth
             THEN /\ pstatus' = "RecursionError"
                  /\ UNCHANGED <<cls_dict, fobj, stack>>
             ELSE /\ stack' = Append(WithTop([Top EXCEPT !.phase = "set"]),
                                     Frame(cls_dict, old_obj[2], new_obj[2]))
                  /\ UNCHANGED <<cls_dict, fobj, pstatus>>
        ELSE \* line 256 without recursion, then lines 258-261
             /\ fobj' = IF old_obj # new_obj /\ old_obj[1] = "fn"
                           /\ new_obj[1] = "fn"
                        THEN [fobj EXCEPT ![old_obj[2]] =
                                UpdateFunction(@, fobj[new_obj[2]])]
                        ELSE fobj
             /\ IF key \in locked /\ ~Caught("AttributeError")
                THEN /\ pstatus' = "AttributeError"
                     /\ UNCHANGED <<cls_dict, stack>>
                ELSE /\ cls_dict' = SetOrSkip(key)
                     /\ stack' = WithTop(NextKey)
                     /\ UNCHANGED pstatus
  /\ UNCHANGED <<cls_inherits, locked, inst_class, todo, cls_dict0, todo0, pass_no, first_result>>
  /\ UNCHANGED notClassVars

\* The recursive call of line 256 returned: lines 258-261.
SetKey ==
  /\ pstatus = "running"
  /\ stack # <<>>
  /\ Top.phase = "set"
  /\ IF Head(Top.keys) \in locked /\ ~Caught("AttributeError")
     THEN /\ pstatus' = "AttributeError"
          /\ UNCHANGED <<cls_dict, stack>>
     ELSE /\ cls_dict' = SetOrSkip(Head(Top.keys))
          /\ stack' = WithTop(NextKey)
          /\ UNCHANGED pstatus
  /\ UNCHANGED <<cls_inherits, locked, fobj, inst_class, todo, cls_dict0,
                 todo0, pass_no, first_result>>
  /\ UNCHANGED notClassVars

\* The loop of line 243 is over: line 263, and the call returns.
FinishClass ==
  /\ pstatus = "running"
  /\ stack # <<>>
  /\ Top.phase = "visit"
  /\ Top.keys = <<>>
  /\ inst_class' = RepointInstances(inst_class, Top.old, Top.new)
  /\ stack' = SubSeq(stack, 1, Len(stack) - 1)
  /\ UNCHANGED <<cls_dict, cls_inherits, locked, fobj, todo, pstatus,
                 cls_dict0, todo0, pass_no, first_result>>
  /\ UNCHANGED notClassVars

\* The loop of lines 102-104 is over.
PassDone ==
  /\ pstatus = "running"
  /\ stack = <<>>
  /\ todo = <<>>
  /\ pstatus' = "done"
  /\ UNCHANGED <<cls_dict, cls_inherits, locked, fobj, inst_class, todo,
                 stack, cls_dict0, todo0, pass_no, first_result>>
  /\ UNCHANGED notClassVars

\* _update_old_modules runs again with the same new module on the snapshot
\* the first pass returned: every old object is alive, so the loop of lines
\* 102-104 goes over the same pairs.
SecondPass ==
  /\ pstatus = "done"
  /\ pass_no = 1
  /\ todo0 # <<>>
  /\ pass_no' = 2
  /\ first_result' = PassResult
  /\ todo' = todo0
  /\ pstatus' = "running"
  /\ UNCHANGED <<cls_dict, cls_inherits, locked, fobj, inst_class, stack,
                 cls_dict0, todo0>>
  /\ UNCHANGED notClassVars

\* The class dicts a reload can leave: the function a of a class is its own,
\* its attribute b is a class of the same generation.
ClassDicts ==
  {[c \in Classes |->
      [k \in Attrs |->
         IF k = "a" THEN (IF fa[c] THEN FnVal(c) ELSE NoVal)
         ELSE (IF fb[c] = "" THEN NoVal ELSE ClsVal(fb[c]))]] :
     fa \in [Classes -> BOOLEAN],
     fb \in {f \in [Classes -> Classes \cup {""}] :
               \A c \in Classes : f[c] \in SameSide(c) \cup {""}}}

ClassInit ==
  /\ cls_dict \in ClassDicts
  /\ cls_inherits \in {inh \in [Classes -> BOOLEAN] :
                         /\ ~inh["O2"] /\ ~inh["N2"]
                         /\ \A c \in Classes :
                              inh[c] => cls_dict[c]["a"] = NoVal}
  /\ locked \in {{}, {"a"}, {"b"}}
  /\ fobj = [f \in Classes \cup {"B"} |-> FnOf(f)]
  /\ inst_class = [k \in OldClasses |-> k]
  /\ todo \in {<<<<"O1", "N1">>>>, <<<<"O1", "N1">>, <<"O2", "N2">>>>}
  /\ stack = <<>>
  /\ pstatus = "running"
  /\ cls_dict0 = cls_dict
  /\ todo0 = todo
  /\ pass_no = 1
  /\ first_result = PassResult

ClassIdle ==
  /\ cls_dict = [c \in Classes |-> [k \in Attrs |-> NoVal]]
  /\ cls_inherits = [c \in Classes |-> FALSE]
  /\ locked = {}
  /\ fobj = [f \in Classes \cup {"B"} |-> FnOf(f)]
  /\ inst_class = [k \in OldClasses |-> k]
  /\ todo = <<>>
  /\ stack = <<>>
  /\ pstatus = "done"
  /\ cls_dict0 = cls_dict
  /\ todo0 = todo
  /\ pass_no = 1
  /\ first_result = PassResult

ClassNext ==
  \/ StartPair
  \/ VisitKey
  \/ SetKey
  \/ FinishClass
  \/ PassDone
  \/ SecondPass

(***************************************************************************)
(* Part 5: the hook from line 195 on, with update_old_modules around the   *)
(* re-imports, at the level of module objects: which object sys.modules    *)
(* holds for a name, what each object's namespace holds, which objects the *)
(* store refers to, and what one global name of the user is bound to.  The *)
(* dirty set is an input of a run: it is what the file times make it.      *)
(* Every module object stays alive (the user may hold it).                 *)
(***************************************************************************)
Objs == 1..MaxObj
NoModule == <<0, 0>>

\* The registry after the imports of a run: the names in newly got a new
\* module object, the names outside reg have none.
RegistryAfter(reg, newly) ==
  [m \in Mods |-> IF m \in newly THEN created[m] + 1
                  ELSE IF m \in reg THEN modobj[m] ELSE 0]

CreatedAfter(newly) ==
  [m \in Mods |-> IF m \in newly THEN created[m] + 1 ELSE created[m]]

\* The namespaces after the imports: a new module object holds its own
\* definitions.
NamespacesAfter(newly) ==
  [m \in Mods |-> IF m \in newly
                  THEN [mod_ns[m] EXCEPT ![created[m] + 1] = created[m] + 1]
                  ELSE mod_ns[m]]

\* Mutant: nothing is saved before the cache is cleared.
SaveModulesNone(store, reload) == store

\* _save_objs(reload=reload, recursive=False): the module objects part of
\* lines 175-183 and 70.
SaveModules(store, reload) ==
  LET names == Range(reload) \cap loaded
  IN [m \in DOMAIN store \cup names |->
        IF m \in names
        THEN Append(IF m \in DOMAIN store THEN store[m] ELSE <<>>, modobj[m])
        ELSE store[m]]

\* Mutant: the pass runs only when the with block ends without an error.
PatchAtExitOnSuccess(mode, failed) == RunsPatcher(mode) /\ ~failed

\* Lines 161-165: the `finally` clause runs the pass however the block ends.
PatchAtExit(mode, failed) == RunsPatcher(mode)

\* _update_old_modules(reload=reload): lines 196-204 and 88-89.  names: the
\* names get_module_names(reload) returns; reg: sys.modules after the imports.
PatchModules(nsmap, store, names, reg) ==
  [m \in Mods |->
     IF m \in names /\ m \in DOMAIN store
     THEN [k \in Objs |-> IF k \in Range(store[m]) THEN nsmap[m][reg[m]]
                          ELSE nsmap[m][k]]
     ELSE nsmap[m]]

\* Mutant: the name alone decides.
ShouldRebindByName(info, mtu, binding) == info.name \in Range(mtu)

\* Lines 234-236.
ShouldRebind(info, mtu, binding) ==
  info.name \in Range(mtu) /\ binding = <<info.name, info.instance>>

\* _pre_run_cell_maybe_reload from line 195 on.  dirty: the dirty set of the
\* staleness loop; order: the enumeration of reload_set; bad: the modules
\* whose body raises when imported.
MaybeReload(dirty, order, bad) ==
  /\ dirty_modules' = dirty
  /\ IF EarlyReturn(dirty)
     THEN /\ cycle' = "noop"
          /\ to_update' = <<>>
          /\ reimported' = <<>>
          /\ imported' = {}
          /\ raised' = 0
          /\ UNCHANGED <<loaded, modobj, created, mod_ns, previous_modules,
                         user_ns, globals_to_update>>
     ELSE LET g == CreateModuleGraph(GetModuleNames)
              mtu == SearchList(g, dirty, [n \in loaded |-> "none"], order)
              store == SaveModules(previous_modules, mtu)
              cleared == ClearCachedModules(loaded, mtu)
              r == ReimportLoop(cleared, mtu, bad, <<>>)
              newly == r.reg \ cleared
              reg == RegistryAfter(r.reg, newly)
              nsmap == NamespacesAfter(newly)
              names == r.reg \cap Range(mtu)
              rebind == /\ r.raised = 0
                        /\ globals_to_update # <<>>
                        /\ ShouldRebind(globals_to_update[1], mtu, user_ns)
          IN /\ \A m \in newly : created[m] < MaxObj
             /\ cycle' = "reload"
             /\ to_update' = mtu
             /\ reimported' = r.done
             /\ imported' = newly
             /\ raised' = r.raised
             /\ loaded' = r.reg
             /\ modobj' = reg
             /\ created' = CreatedAfter(newly)
             /\ previous_modules' = store
             /\ mod_ns' = IF PatchAtExit(reload_mode, r.raised # 0)
                          THEN PatchModules(nsmap, store, names, reg)
                          ELSE nsmap
             /\ user_ns' =
                  IF rebind
                  THEN <<globals_to_update[1].name,
                         reg[globals_to_update[1].name]>>
                  ELSE user_ns
             /\ globals_to_update' =
                  IF rebind
                  THEN <<[globals_to_update[1] EXCEPT
                            !.instance = reg[globals_to_update[1].name]]>>
                  ELSE globals_to_update
  /\ UNCHANGED reload_mode
  /\ UNCHANGED notCycleVars

\* The user's cell imports m while it is not in sys.modules.
ImportByUser(m) ==
  /\ m \notin loaded
  /\ LET r == ImportModule(loaded, m, {})
         newly == r.reg \ loaded
     IN /\ \A k \in newly : created[k] < MaxObj
        /\ loaded' = r.reg
        /\ modobj' = RegistryAfter(r.reg, newly)
        /\ created' = CreatedAfter(newly)
        /\ mod_ns' = NamespacesAfter(newly)
  /\ cycle' = "idle"
  /\ to_update' = <<>>
  /\ reimported' = <<>>
  /\ imported' = {}
  /\ raised' = 0
  /\ UNCHANGED <<dirty_modules, reload_mode, previous_modules, user_ns,
                 globals_to_update>>
  /\ UNCHANGED notCycleVars

\* The user's cell binds the global name: to the module sys.modules holds
\* for m, or (m = 0) to something that is not a watched module.
BindGlobal(m) ==
  /\ m # 0 => m \in loaded
  /\ user_ns' = IF m = 0 THEN NoModule ELSE <<m, modobj[m]>>
  /\ user_ns' # user_ns
  /\ cycle' = "idle"
  /\ to_update' = <<>>
  /\ reimported' = <<>>
  /\ imported' = {}
  /\ raised' = 0
  /\ UNCHANGED <<loaded, dirty_modules, reload_mode, modobj, created, mod_ns,
                 previous_modules, globals_to_update>>
  /\ UNCHANGED notCycleVars

\* track_globals(): lines 152-173 for the global name, bound to a module.
TrackGlobals ==
  /\ user_ns # NoModule
  /\ globals_to_update' = <<[name |-> user_ns[1], instance |-> user_ns[2]]>>
  /\ globals_to_update' # globals_to_update
  /\ cycle' = "idle"
  /\ to_update' = <<>>
  /\ reimported' = <<>>
  /\ imported' = {}
  /\ raised' = 0
  /\ UNCHANGED <<loaded, dirty_modules, reload_mode, modobj, created, mod_ns,
                 previous_modules, user_ns>>
  /\ UNCHANGED notCycleVars

CycleIdle ==
  /\ reload_mode = "UPDATE_INPLACE"
  /\ modobj = [m \in Mods |-> 0]
  /\ created = [m \in Mods |-> 0]
  /\ mod_ns = [m \in Mods |-> [k \in Objs |-> 0]]
  /\ previous_modules = <<>>
  /\ user_ns = NoModule
  /\ globals_to_update = <<>>

\* The watched modules are loaded, each in its first module object; nothing
\* is saved or tracked yet.
CycleInit ==
  /\ reload_mode \in ReloadModes
  /\ hasFile = [m \in Mods |-> TRUE]
  /\ mtime = [m \in Mods |-> 0]
  /\ deps \in {d \in [Mods -> SUBSET Mods] : RefCount(d) <= MaxRefs}
  /\ loaded = Mods
  /\ last_updates = <<>>
  /\ registered = TRUE
  /\ dirty_modules = {}
  /\ cycle = "idle"
  /\ to_update = <<>>
  /\ reimported = <<>>
  /\ imported = {}
  /\ raised = 0
  /\ hooks = 0
  /\ runs = 0
  /\ everSome = {}
  /\ firstObs = [m \in Mods |-> "unseen"]
  /\ modobj = [m \in Mods |-> 1]
  /\ created = [m \in Mods |-> 1]
  /\ mod_ns = [m \in Mods |-> [k \in Objs |-> IF k = 1 THEN 1 ELSE 0]]
  /\ previous_modules = <<>>
  /\ user_ns = NoModule
  /\ globals_to_update = <<>>

CycleNext ==
  \/ \E dirty \in SUBSET loaded, order \in Orders(loaded),
        bad \in Bounded(Mods) : MaybeReload(dirty, order, bad)
  \/ \E m \in Mods : ImportByUser(m)
  \/ \E m \in Mods \cup {0} : BindGlobal(m)
  \/ TrackGlobals

(***************************************************************************)
(* Specifications.                                                         *)
(***************************************************************************)
InitSearch == HookIdle /\ HeapIdle /\ ClassIdle /\ CycleIdle /\ SearchInit
SpecSearch == InitSearch /\ [][SearchNext]_vars

InitHook == SearchIdle /\ HeapIdle /\ ClassIdle /\ CycleIdle /\ HookInit
SpecHook == InitHook /\ [][HookNext]_vars

InitReload == SearchIdle /\ HookIdle /\ ClassIdle /\ CycleIdle /\ HeapInit
SpecReload == InitReload /\ [][HeapNext]_vars

InitClass == SearchIdle /\ HookIdle /\ HeapIdle /\ CycleIdle /\ ClassInit
SpecClass == InitClass /\ [][ClassNext]_vars

InitCycle == SearchIdle /\ HeapIdle /\ ClassIdle /\ CycleInit
SpecCycle == InitCycle /\ [][CycleNext]_vars

(***************************************************************************)
(* Reference definitions for the closure claims: reachability stated on    *)
(* the graph, independently of the search.                                 *)
(***************************************************************************)
RECURSIVE GrowTo(_, _)
GrowTo(g, S) ==
  LET S2 == S \cup {n \in Nodes : g[n] \cap S # {}}
  IN IF S2 = S THEN S ELSE GrowTo(g, S2)

\* Nodes that are in T or have a directed path to a member of T.
ClosureOf(g, T) == GrowTo(g, T)

\* Nodes from which n is reachable by one edge or more.
Ancestors(g, n) == GrowTo(g, {k \in Nodes : n \in g[k]})

Acyclic(g) == \A n \in Nodes : n \notin Ancestors(g, n)

SearchDone == pc = "idle" /\ pending = {}

NoDuplicates(s) == Cardinality(Range(s)) = Len(s)

\* C1: on an acyclic graph, once every module of reload_set has been queried
\* (in whatever order), the list of modules to reload holds exactly the
\* modules that are dirty or have a directed path to a dirty module.
C1_ClosureAcyclic ==
  (SearchDone /\ Acyclic(graph)) =>
     /\ Range(modules_to_update) = ClosureOf(graph, targets)
     /\ NoDuplicates(modules_to_update)

C1_Witness ==
  /\ SearchDone
  /\ Acyclic(graph)
  /\ EdgeCount(graph) >= 2
  /\ Range(modules_to_update) \ targets # {}
  /\ Nodes \ Range(modules_to_update) # {}

\* C2: on a graph with a cycle (self-edge, mutual reference, longer cycle) the
\* list of modules to reload is still exactly the closure of the dirty set;
\* with 1 and 2 referencing each other and only 1 dirty, both are in it.
C2_ClosureCyclic ==
  (SearchDone /\ ~Acyclic(graph)) =>
     /\ Range(modules_to_update) = ClosureOf(graph, targets)
     /\ (2 \in graph[1] /\ 1 \in graph[2] /\ targets = {1})
          => {1, 2} \subseteq Range(modules_to_update)

C2_Witness ==
  /\ SearchDone
  /\ 2 \in graph[1] /\ 1 \in graph[2]
  /\ targets = {1}
  /\ {1, 2} \subseteq Range(modules_to_update)
  /\ Nodes \ Range(modules_to_update) # {}

\* C3: within one traversal no node enters the queue twice, the queue holds
\* only visited nodes, the loop runs at most once per node, and the call can
\* always take its next step: every call terminates, cycles or not.
C3_Terminates ==
  /\ \A n \in Nodes : enq[n] <= 1
  /\ Range(queue) \subseteq visited
  /\ NoDuplicates(queue)
  /\ iters <= NumNodes
  /\ iters + Len(queue) <= Cardinality(visited)
  /\ pc = "loop" => ENABLED (LoopStep \/ LoopExit)

C3_Witness ==
  /\ pc = "loop"
  /\ ~Acyclic(graph)
  /\ source \in Ancestors(graph, source)
  /\ queue = <<>>
  /\ iters >= 2


(***************************************************************************)
(* Claims on the staleness check (SpecHook).                               *)
(***************************************************************************)
\* C4: staleness idempotence.  When a hook run checks only modules the run
\* before it checked, observes the same timestamps (available or not), and
\* nothing happened in between, its dirty set is empty.
C4_SecondCheckClean == runs = 2 => dirty_modules = {}

\* C5: a module whose timestamp was unavailable (None) at every check so far,
\* this one included, is not in the dirty set.
C5_NoStampNeverDirty == dirty_modules \subseteq everSome

\* C6: first-observation policy.  A module first checked without a recorded
\* entry is reported dirty by that check ("missed" otherwise), and by no later
\* check while its file stays unchanged ("again" otherwise).
C6_DirtyExactlyOnce ==
  \A m \in Mods : firstObs[m] \notin {"again", "missed"}

(***************************************************************************)
(* Claims on the in-place patcher (SpecReload).  `last = "patched"` holds  *)
(* from the end of a cycle that ran the patch pass until the user creates  *)
(* an object or the next cycle starts; sysmod is then the new module.      *)
(* Every module object g <= gens other than sysmod left sys.modules in a   *)
(* cycle, whose _save_objs captured it and its objects first.              *)
(***************************************************************************)
OldGens == {g \in 1..gens : g # sysmod}

\* The new module binds name n to a class (a function) it defines.
NewIsClass(n) == ns[sysmod][n] = sysmod /\ IsClass(objKind[n][sysmod])
NewIsFunc(n) == ns[sysmod][n] = sysmod /\ objKind[n][sysmod] = "func"

\* The code that obj.f() runs for instance i: the import that compiled the
\* body of the method its class holds under f; 0 when the class has no f.
MethodCode(i) ==
  LET n == icls[i][1]
      k == cattr[n][icls[i][2]]
  IN IF k = 0 THEN 0 ELSE mfn[n][k].code

\* C7: after a cycle in mode UPDATE_INPLACE, every live instance of a class
\* that the module defined under a name the new module still binds to a class
\* has the new class as its class, and a method call on it runs the body the
\* new source defines.
C7_InstancesRepointed ==
  last = "patched" =>
    \A i \in Insts :
      (icls[i] # <<>> /\ NewIsClass(icls[i][1])) =>
         /\ icls[i] = <<icls[i][1], sysmod>>
         /\ MethodCode(i) = cattr[icls[i][1]][sysmod]

\* C8: after a cycle in mode UPDATE_INPLACE, every live function object that
\* an earlier version of the module defined under a name the new module binds
\* to a function has the code, defaults and docstring of the new function.
C8_OldFunctionsRunNewCode ==
  last = "patched" =>
    \A n \in Names, g \in OldGens :
      (objKind[n][g] = "func" /\ NewIsFunc(n)) =>
         /\ fn[n][g].code = fn[n][sysmod].code
         /\ fn[n][g].defaults = fn[n][sysmod].defaults
         /\ fn[n][g].doc = fn[n][sysmod].doc

\* C9: after a patch pass every live module object of an earlier import has
\* exactly the bindings of the new module: none of its own is left, every new
\* one is present.
C9_OldNamespaceOverwritten ==
  last = "patched" =>
    \A g \in OldGens : g \notin deadMods => ns[g] = ns[sysmod]

C9_Witness ==
  /\ last = "patched"
  /\ sysmod = 3
  /\ deadMods = {}
  /\ objKind["x"][1] # "none"
  /\ objKind["x"][2] = "none"
  /\ ns[3]["x"] = 3
  /\ ns[1] = ns[3] /\ ns[2] = ns[3]

\* The live object <<n, g>> of an earlier generation carries the newest
\* definition of its name: a function has the new code, a class has no
\* instance left and holds the new method under f when it had one.
CarriesNewest(n, g) ==
  /\ (objKind[n][g] = "func" /\ NewIsFunc(n)) =>
        fn[n][g].code = fn[n][sysmod].code
  /\ (IsClass(objKind[n][g]) /\ NewIsClass(n)) =>
        /\ \A i \in Insts : icls[i] # <<n, g>>
        /\ cattr[n][g] \in {0, cattr[n][sysmod]}

\* C10: after any sequence of cycles, a patch pass brings the live objects of
\* every earlier generation, not only the last one, to the newest definition
\* of their name, whether or not every generation in between bound the name.
C10_AllGenerationsUpdated ==
  last = "patched" =>
    \A n \in Names, g \in OldGens :
      objKind[n][g] # "none" => CarriesNewest(n, g)

\* A step that ends a cycle whose patch pass ran.
PatchStep == gens' # gens /\ last' = "patched"

\* C11: a patch pass returns a snapshot without the collected: every module
\* and every object the stored snapshot refers to after the pass was alive
\* during the pass, whatever was collected before it.
C11_DeadRefsPruned ==
  [][PatchStep =>
       /\ \A g \in Range(refModules') : g \notin deadMods
       /\ \A n \in DOMAIN refObjs' :
            \A g \in Range(refObjs'[n]) : objKind[n][g] # "none"]_vars

\* Module 1 was captured, then collected, and a pass dropped its reference
\* while it kept module 2 and the object x of module 2.
C11_Witness ==
  /\ last = "patched"
  /\ sysmod = 3
  /\ 1 \in deadMods
  /\ refModules = <<2>>
  /\ "x" \in DOMAIN refObjs
  /\ refObjs["x"] = <<2>>

(***************************************************************************)
(* Claims on one hook run (SpecHook).  to_update, reimported, imported and *)
(* raised describe the run that just returned.                             *)
(***************************************************************************)
\* The modules that importing the modules of S imports, S included.
RECURSIVE ImportsOf(_)
ImportsOf(S) ==
  LET S2 == S \cup UNION {deps[m] : m \in S}
  IN IF S2 = S THEN S ELSE ImportsOf(S2)

\* The position in modules_to_update at which the loop ended.
FailedAt == Len(reimported) + 1

\* C12 as stated: when a re-import raises, the hook raises that error, the
\* modules before the failing one are registered as new module objects, and
\* no module after the failing one is imported in that run.
C12_NothingAfterFailure ==
  raised # 0 =>
    /\ FailedAt <= Len(to_update)
    /\ reimported = SubSeq(to_update, 1, Len(reimported))
    /\ \A i \in 1..Len(reimported) : to_update[i] \in loaded \cap imported
    /\ \A i \in (FailedAt + 1)..Len(to_update) : to_update[i] \notin imported

\* C12, amended: the hook raises exactly when a module of the closure is
\* missing from the registry after the loop; the error is the one of a module
\* body that raised; the modules before the failing one are registered as new
\* module objects; the failing one is not registered; a module after it is
\* imported in that run only as an import of the failing one or of one
\* before it.
C12_FailureSurfaced ==
  /\ (raised # 0) <=> ~(Range(to_update) \subseteq loaded)
  /\ raised # 0 =>
       /\ raised \notin loaded
       /\ FailedAt <= Len(to_update)
       /\ reimported = SubSeq(to_update, 1, Len(reimported))
       /\ \A i \in 1..Len(reimported) : to_update[i] \in loaded \cap imported
       /\ to_update[FailedAt] \notin loaded
       /\ raised \in ImportsOf({to_update[FailedAt]})
       /\ \A i \in (FailedAt + 1)..Len(to_update) :
            to_update[i] \in imported =>
              to_update[i] \in ImportsOf({to_update[j] : j \in 1..FailedAt})

\* The second module of the closure raised after the first was re-imported.
C12_Witness ==
  /\ raised # 0
  /\ Len(to_update) = 2
  /\ reimported = <<to_update[1]>>
  /\ raised = to_update[2]
  /\ to_update[1] \in loaded \cap imported
  /\ to_update[2] \notin loaded

\* C13: a hook run whose staleness check finds no dirty module returns at
\* once: no closure, nothing cleared, nothing imported, nothing raised, the
\* registry and the files as they were; only _last_updates may differ.
C13_NoopCycle ==
  [][(cycle' # "idle" /\ dirty_modules' = {}) =>
       /\ cycle' = "noop"
       /\ to_update' = <<>> /\ reimported' = <<>>
       /\ imported' = {} /\ raised' = 0
       /\ UNCHANGED <<loaded, hasFile, mtime, deps, registered>>
       /\ UNCHANGED heapVars]_vars

\* A no-op run that changed a recorded timestamp: the stat() of a module
\* that had a timestamp before failed, and nothing was reloaded.
C13_Witness ==
  /\ cycle = "noop"
  /\ dirty_modules = {}
  /\ \E m \in loaded : m \in everSome /\ last_updates[m] = None

\* Nodes of g that are in T or have a directed path in g to a member of T.
RECURSIVE ReachSet(_, _)
ReachSet(g, S) ==
  LET S2 == S \cup {n \in DOMAIN g : g[n] \cap S # {}}
  IN IF S2 = S THEN S ELSE ReachSet(g, S2)

\* C14: in a run with a non-empty dirty set, the modules handed to the
\* clear-and-reimport step are exactly the closure of the dirty set in the
\* graph of the loaded watched modules, each once; when no import raises,
\* each of them is registered afterwards as a new module object; and every
\* loaded module outside the closure stays registered as the object it was.
C14_ExactlyTheClosure ==
  [][cycle' = "reload" =>
       /\ dirty_modules' # {}
       /\ Range(to_update') =
            ReachSet(CreateModuleGraph(loaded), dirty_modules')
       /\ NoDuplicates(to_update')
       /\ raised' = 0 => Range(to_update') \subseteq (loaded' \cap imported')
       /\ \A m \in loaded \ Range(to_update') :
            m \in loaded' /\ m \notin imported']_vars

\* One of two loaded modules was dirty and reloaded; the other, outside the
\* closure, was left alone.
C14_Witness ==
  /\ cycle = "reload"
  /\ raised = 0
  /\ Len(to_update) = 1
  /\ dirty_modules = Range(to_update)
  /\ imported = Range(to_update)
  /\ loaded = Mods

FreshSearch(n) ==
  ReachesRun(graph, targets, [k \in Nodes |-> "none"], <<n>>, {n})

AsBool(v) == v = "true"

\* C16: whatever queries were made so far and in whatever order, every value
\* returned and every value in the cache is the value of a search without
\* memo from that node, and a query from any node with the cache as it is now
\* returns that value too.  The graph and the targets never change, so a
\* stored value never turns into its opposite.
C16_MemoSound ==
  /\ \A n \in Nodes :
       /\ answers[n] # "none" => AsBool(answers[n]) = FreshSearch(n)
       /\ cache[n] # "none" => AsBool(cache[n]) = FreshSearch(n)
  /\ pc = "idle" =>
       \A n \in Nodes :
         ReachesRun(graph, targets, cache, <<n>>, {n}) = FreshSearch(n)

\* The last query returned True from the cache alone: it met no target.
C16_Witness ==
  /\ pc = "idle"
  /\ pending = {}
  /\ cache[source] = "true"
  /\ visited \cap targets = {}

\* C17: a staleness check leaves, for every module it looked at, dirty or
\* not, the value it observed: the current modification time of the file,
\* higher or lower than the one recorded before, or None when there is no
\* file or stat() failed; entries of other modules stay; this is so whether
\* the run then returns, reloads, or fails in an import.
C17_StampsRecorded ==
  [][cycle' # "idle" =>
       \E statFail \in SUBSET loaded :
         /\ DOMAIN last_updates' = DOMAIN last_updates \cup loaded
         /\ \A m \in loaded :
              last_updates'[m] = GetLastModuleUpdate(m, statFail)
         /\ \A m \in DOMAIN last_updates \ loaded :
              last_updates'[m] = last_updates[m]]_vars

\* The run recorded the new time of a changed module and then failed to
\* import it.
C17_Witness ==
  /\ cycle = "reload"
  /\ raised # 0
  /\ raised \in dirty_modules
  /\ mtime[raised] = 1
  /\ last_updates[raised] = Stamp(1)

\* C18: in the first hook run after register(), a module for which
\* register() recorded a timestamp and whose file has that modification time
\* still is not reported dirty.
C18_FirstObservationClean ==
  [][(hooks = 0 /\ hooks' = 1) =>
       \A m \in DOMAIN last_updates :
         (last_updates[m] # None /\ last_updates[m] = Stamp(mtime[m]))
            => m \notin dirty_modules']_vars

\* The first hook run found another module dirty and reloaded it, and left
\* alone a loaded module that register() had recorded with its timestamp.
C18_Witness ==
  /\ hooks = 1
  /\ cycle = "reload"
  /\ \E d \in dirty_modules : hasFile[d] /\ mtime[d] = 1
  /\ \E m \in loaded :
       /\ hasFile[m]
       /\ m \notin dirty_modules
       /\ m \notin imported
       /\ last_updates[m] = Stamp(mtime[m])

\* C19: in a hook run, a loaded module with a recorded timestamp whose query
\* fails (the recorded value becomes None) is not reported dirty, and a
\* loaded module whose recorded value is None is reported dirty, whatever
\* the file's time is and whether or not the query succeeds.
C19_StatFailurePolicy ==
  [][cycle' # "idle" =>
       \A m \in loaded \cap DOMAIN last_updates :
         /\ (last_updates[m] # None /\ last_updates'[m] = None)
               => m \notin dirty_modules'
         /\ last_updates[m] = None => m \in dirty_modules']_vars

\* register() recorded a timestamp of the module, the query failed in the
\* first hook run, and the second hook run, right after it and with the file
\* untouched and the query failing again, reported the module dirty.
C19_Witness ==
  /\ hooks = 2
  /\ \E m \in loaded :
       /\ hasFile[m]
       /\ m \in everSome
       /\ last_updates[m] = None
       /\ m \in dirty_modules

(***************************************************************************)
(* Claims on the snapshot a patch pass returns (SpecReload).               *)
(***************************************************************************)
\* The objs dict the pass works on: what was tracked before the cycle plus
\* what _save_objs captured from the module about to be replaced.
TrackedAtPass == IF sysmod # 0 THEN SaveObjs(refObjs, sysmod) ELSE refObjs

\* C20: every tracked old object that is alive at a patch pass is in the
\* snapshot the pass returns, under its binding name, also when the new
\* module does not bind that name.
C20_LiveRefsKept ==
  [][PatchStep =>
       \A n \in DOMAIN TrackedAtPass :
         \A g \in Range(TrackedAtPass[n]) :
           objKind[n][g] # "none"
              => n \in DOMAIN refObjs' /\ g \in Range(refObjs'[n])]_vars

(***************************************************************************)
(* Claims on the class update (SpecClass).                                 *)
(***************************************************************************)
\* A call _update_class(old, new) returns in this step.
ClassReturns == Len(stack') < Len(stack)

\* C21: when _update_class(old, new) returns, every attribute the old class
\* itself had when the call started, and that can be set and deleted, is
\* bound on the old class to the value the new class resolves for its name,
\* and is absent from the old class when the new class resolves none.
C21_AttrsFollowNewClass ==
  [][ClassReturns =>
       \A key \in Range(Top.own) :
         key \notin locked =>
           cls_dict'[Top.old][key] =
             GetAttr(cls_dict', cls_inherits, Top.new, key)]_vars

\* C22: no failure to set or delete an attribute leaves the pass; when a
\* call _update_class(old, new) returns, none of the old class's attributes
\* that can be set and deleted is left bound to an object of the old
\* generation and no instance has the old class as its class, whatever
\* attribute failed; and when the pass is over every pair of the loop was
\* updated.
C22_AttrFailureIsLocal ==
  [][/\ pstatus' # "AttributeError"
     /\ ClassReturns =>
          /\ Top.keys = <<>>
          /\ \A key \in Range(Top.own) :
               key \notin locked => cls_dict'[Top.old][key][2] \notin OldClasses
          /\ \A k \in OldClasses : inst_class'[k] # Top.old
     /\ pstatus' = "done" =>
          /\ todo' = <<>>
          /\ \A i \in DOMAIN todo0 : inst_class'[todo0[i][1]] \in NewClasses]_vars

\* The pass is over.  Setting a on the old classes failed: O1 still binds its
\* own function, whose code was updated; its attribute b, handled after a,
\* is the new nested class; the instances of O1 and of the pair handled
\* after it, O2, were repointed.
C22_Witness ==
  /\ pstatus = "done"
  /\ locked = {"a"}
  /\ Len(todo0) = 2
  /\ cls_dict["N1"]["a"] = FnVal("N1")
  /\ cls_dict["O1"]["a"] = FnVal("O1")
  /\ fobj["O1"].code = "N1"
  /\ cls_dict0["O1"]["b"] = ClsVal("O2")
  /\ cls_dict["O1"]["b"] = ClsVal("N2")
  /\ inst_class = [k \in OldClasses |-> IF k = "O1" THEN "N1" ELSE "N2"]

\* C23: the recursive update of a pair of classes completes, also when an
\* attribute of the class is the class itself or an enclosing class in both
\* the old and the new version: the pass is never left by a RecursionError.
C23_ClassUpdateCompletes == pstatus # "RecursionError"

(***************************************************************************)
(* Claims on one hook run at the level of module objects (SpecCycle).      *)
(***************************************************************************)
\* C24: in a hook run that reloads without an error, the binding of a
\* tracked global name is replaced by the newly loaded module, and the
\* tracked record with it, exactly when the tracked module name is in
\* modules_to_update and the name is still bound to the tracked module
\* object; otherwise the binding and the record are unchanged.
C24_GlobalsRebound ==
  [][(cycle' = "reload" /\ raised' = 0) =>
       IF /\ globals_to_update # <<>>
          /\ globals_to_update[1].name \in Range(to_update')
          /\ user_ns = <<globals_to_update[1].name,
                         globals_to_update[1].instance>>
       THEN LET m == globals_to_update[1].name
            IN /\ m \in imported'
               /\ modobj'[m] # modobj[m]
               /\ user_ns' = <<m, modobj'[m]>>
               /\ globals_to_update' = <<[name |-> m, instance |-> modobj'[m]]>>
       ELSE /\ user_ns' = user_ns
            /\ globals_to_update' = globals_to_update]_vars

\* A run without an error has just rebound the global name to the module
\* object it created for the tracked module.
C24_Witness ==
  /\ cycle = "reload"
  /\ raised = 0
  /\ globals_to_update # <<>>
  /\ globals_to_update[1].name \in imported
  /\ globals_to_update[1].instance = 2
  /\ user_ns = <<globals_to_update[1].name, 2>>
  /\ modobj[globals_to_update[1].name] = 2

\* C25: in mode UPDATE_INPLACE, when a re-import raises, the module objects
\* the registry held before the run for the modules the loop re-imported
\* before the failure hold the definitions of their new module objects, and
\* the user's binding and the tracked record are as before the run.
C25_PatchedAfterFailure ==
  [][(cycle' = "reload" /\ raised' # 0 /\ reload_mode = "UPDATE_INPLACE") =>
       /\ \A m \in Range(reimported') :
            /\ modobj'[m] # modobj[m]
            /\ mod_ns'[m][modobj'[m]] = modobj'[m]
            /\ mod_ns'[m][modobj[m]] = modobj'[m]
       /\ user_ns' = user_ns
       /\ globals_to_update' = globals_to_update]_vars

\* A run in mode UPDATE_INPLACE has just failed after it re-imported the
\* tracked module: the old module object holds the new definitions and the
\* global name is still bound to the old module object.
C25_Witness ==
  /\ cycle = "reload"
  /\ raised # 0
  /\ reload_mode = "UPDATE_INPLACE"
  /\ globals_to_update # <<>>
  /\ LET m == globals_to_update[1].name
     IN /\ m \in Range(reimported)
        /\ user_ns = <<m, 1>>
        /\ globals_to_update[1].instance = 1
        /\ modobj[m] = 2
        /\ mod_ns[m][1] = 2

\* C26: when a re-import raises, every module of modules_to_update that the
\* run did not import is absent from the registry, hence from the names the
\* next staleness loop goes over, and the store refers to its old module
\* object, whose namespace is as before the run.
C26_ClosureLeftUnloaded ==
  [][(cycle' = "reload" /\ raised' # 0) =>
       \A m \in Range(to_update') \ imported' :
         /\ m \notin loaded'
         /\ modobj'[m] = 0
         /\ m \notin GetModuleNames'
         /\ m \in DOMAIN previous_modules'
         /\ modobj[m] \in Range(previous_modules'[m])
         /\ mod_ns'[m][modobj[m]] = mod_ns[m][modobj[m]]]_vars

\* A run has just failed in the first module of its list; the second one,
\* never imported, is not in the registry and its old module object is in
\* the store, unpatched.
C26_Witness ==
  /\ cycle = "reload"
  /\ raised # 0
  /\ Len(to_update) = 2
  /\ raised = to_update[1]
  /\ LET m == to_update[2]
     IN /\ m \notin imported
        /\ m \notin loaded
        /\ modobj[m] = 0
        /\ previous_modules[m] = <<1>>
        /\ mod_ns[m][1] = 1

\* C27: a second patch pass with the same new module on the snapshot the
\* first pass returned leaves every old class, function and instance class
\* pointer as the first pass left it.
C27_SecondPassChangesNothing ==
  (pass_no = 2 /\ pstatus = "done") => PassResult = first_result

====
